---------------------------- MODULE Spec2Model ----------------------------
(***************************************************************************)
(* Model of rflect.ui.MomentumScroller                                     *)
(* (src/src/momentum-scroller/momentumscroller.js).                        *)
(*                                                                         *)
(* Numbers.  JavaScript numbers are modelled in fixed point:               *)
(*   - finger coordinates (clientY) and element heights: whole pixels;     *)
(*   - content offsets, displacements, indicator length: 1/1000 pixel;     *)
(*   - timestamps (goog.now()): milliseconds;                              *)
(*   - velocities: pixels per second (the source's px/ms times 1000);      *)
(*   - accelerations: 1/10000 px/ms^2 (ACCELERATION_SLIDING 0.0005 is 5).  *)
(* In these units the stopping displacement -v^2/(2a) of a velocity v is   *)
(* exactly v^2 thousandths of a pixel.  endMomentumVelocity_ holds the     *)
(* signed square sign(v) * v^2 of the source's value: the source only      *)
(* reads its sign and its square (setUpTransitionStage2), so the square    *)
(* root is never rounded.                                                  *)
(*                                                                         *)
(* Renderer.  The browser's part (CSS transitions of the content element)  *)
(* is the state transition / transformY / liveY / running: a transform     *)
(* set while a timed transition is declared animates from the live value   *)
(* to the new one and ends with one transitionend event; a transform set   *)
(* to the live value, or under no or a zero-length transition, applies at  *)
(* once and fires nothing.  While a transition runs, liveY is the offset   *)
(* it started from, and the computed matrix a handler reads is a point of  *)
(* the way from liveY to transformY.                                       *)
(***************************************************************************)
EXTENDS Integers, FiniteSets, Sequences, TLC

VARIABLES
    \* fields of the scroller (momentumscroller.js 160-321)
    enabled_, elementHeight, frameHeight,
    startTouchY, contentOffsetY, contentStartOffsetY,
    previousPoint_, previousMoment_, currentPoint_, currentMoment_,
    isDragging_, isDecelerating_, stopPropagationOnTouchEnd_,
    queuedTransitionStage_, endMomentumVelocity_,
    \* process-wide
    instancesCount_,
    \* renderer: style of the content element and of the indicator line
    transition, transformY, liveY, running, scrollBarLine,
    \* observation: whether the last handler synthesized a click; the number
    \* of transitionend events handled since the last touch-end, or -1 once
    \* another touch event or API call followed it; the number of
    \* touch-starts so far; how the last event ended if it was a transitionend
    \* of another element or a touch event without a touch point ("ignored",
    \* "raised" an error, "handled" as any other event), else "none"
    clicked, finished, gestures, stray

vars == <<enabled_, elementHeight, frameHeight, startTouchY, contentOffsetY,
          contentStartOffsetY, previousPoint_, previousMoment_, currentPoint_,
          currentMoment_, isDragging_, isDecelerating_,
          stopPropagationOnTouchEnd_, queuedTransitionStage_,
          endMomentumVelocity_, instancesCount_, transition, transformY,
          liveY, running, scrollBarLine, clicked, finished, gestures, stray>>

---------------------------------------------------------------------------
(* Program constants *)

DRAG_THRESHOLD == 5

OUT_OF_BOUNDS_MAXIMUM == 100

ACCELERATION_SLIDING == 5

ACCELERATION_BOUNCE_BACK_COEFF == 10

NONE == -1

TO_BOUNDS == 0

BOUNCED_OUT == 1

BOUNCED_BACK == 2

MAXIMUM_VELOCITY == 3500

SCROLLBAR_MIN_HEIGHT == 5

---------------------------------------------------------------------------
(* Bounds and inputs of the model *)

\* touch-starts per behaviour
MaxGestures == 2

\* scrollers of the page attached besides this one
MaxInstances == 5

\* thousandths of a pixel per pixel
Milli == 10 * 100

\* goog.now() at a touch-start
Epoch == 10 * 100

\* clientY of the touch point at a touch-start and at a touch-move
StartYs == {100}

MoveYs == {103, 160}

\* goog.now() at a touch-move
Nows == {Epoch + 30}

\* how far a running transition has come when its computed matrix is read,
\* in halves of the way
Progress == {0, 1}

\* <<frame height, content height>> measured by calculateSizes
Geometries == {<<300, 900>>, <<300, 200>>}

\* clientY and goog.now() of the two touch-moves, and the scroll top, of
\* the drags whose release SpecRelease explores; the clock may stand still
\* or step back between two samples
SamplePoints == {40, 97, 100, 160, 250}

SampleMoments == {Epoch, Epoch + 10, Epoch + 30}

SampleTops == {0, 60, 300, 600}

\* content offsets (pixels) snapToBounds is invoked at in SpecSnap: above
\* the upper bound, in bounds and below the lower bound of both geometries
SnapOffsets == {20 * k - 700 : k \in 0..40}

\* arguments of setScrollTop: NaN and numbers (pixels)
NaN == [nan |-> TRUE, v |-> 0]

Num(n) == [nan |-> FALSE, v |-> n]

ScrollTops == {NaN} \cup {Num(n) : n \in {0, 60, 10000, -10000}}

---------------------------------------------------------------------------
(* Arithmetic *)

Abs(x) == IF x < 0 THEN -x ELSE x

sign(x) == IF x > 0 THEN 1 ELSE IF x < 0 THEN -1 ELSE 0

\* the quotient a / b of two numbers, cut toward zero to the fixed point grid
Quot(a, b) == sign(a) * sign(b) * (Abs(a) \div Abs(b))

\* the k-th term (n/550)^k / k! of the exponential series, scaled by 10^6
RECURSIVE ExpTerm(_, _)
ExpTerm(n, k) ==
    IF k = 0 THEN Milli * Milli ELSE (ExpTerm(n, k - 1) * n) \div (550 * k)

\* 10^6 * exp(-n/550), n >= 0 in pixels
RECURSIVE ExpNegSum(_, _)
ExpNegSum(n, k) ==
    IF k = 0 THEN ExpTerm(n, 0)
    ELSE ExpNegSum(n, k - 1) + (IF k % 2 = 0 THEN 1 ELSE -1) * ExpTerm(n, k)

\* deltaY /= Math.exp(Math.abs(deltaY/550)); deltaY in pixels, result in
\* thousandths of a pixel
rubberBand(deltaY) ==
    sign(deltaY) * ((Abs(deltaY) * ExpNegSum(Abs(deltaY), 12)) \div Milli)

---------------------------------------------------------------------------
(* The state as one record, so that a handler is a function of it *)

This ==
    [enabled_ |-> enabled_, elementHeight |-> elementHeight,
     frameHeight |-> frameHeight, startTouchY |-> startTouchY,
     contentOffsetY |-> contentOffsetY,
     contentStartOffsetY |-> contentStartOffsetY,
     previousPoint_ |-> previousPoint_, previousMoment_ |-> previousMoment_,
     currentPoint_ |-> currentPoint_, currentMoment_ |-> currentMoment_,
     isDragging_ |-> isDragging_, isDecelerating_ |-> isDecelerating_,
     stopPropagationOnTouchEnd_ |-> stopPropagationOnTouchEnd_,
     queuedTransitionStage_ |-> queuedTransitionStage_,
     endMomentumVelocity_ |-> endMomentumVelocity_,
     instancesCount_ |-> instancesCount_,
     transition |-> transition, transformY |-> transformY, liveY |-> liveY,
     running |-> running, scrollBarLine |-> scrollBarLine,
     clicked |-> clicked]

Becomes(t) ==
    /\ enabled_' = t.enabled_
    /\ elementHeight' = t.elementHeight
    /\ frameHeight' = t.frameHeight
    /\ startTouchY' = t.startTouchY
    /\ contentOffsetY' = t.contentOffsetY
    /\ contentStartOffsetY' = t.contentStartOffsetY
    /\ previousPoint_' = t.previousPoint_
    /\ previousMoment_' = t.previousMoment_
    /\ currentPoint_' = t.currentPoint_
    /\ currentMoment_' = t.currentMoment_
    /\ isDragging_' = t.isDragging_
    /\ isDecelerating_' = t.isDecelerating_
    /\ stopPropagationOnTouchEnd_' = t.stopPropagationOnTouchEnd_
    /\ queuedTransitionStage_' = t.queuedTransitionStage_
    /\ endMomentumVelocity_' = t.endMomentumVelocity_
    /\ instancesCount_' = t.instancesCount_
    /\ transition' = t.transition
    /\ transformY' = t.transformY
    /\ liveY' = t.liveY
    /\ running' = t.running
    /\ scrollBarLine' = t.scrollBarLine
    /\ clicked' = t.clicked

---------------------------------------------------------------------------
(* Renderer: rflect.browser.css.setTransition / setTransform on the        *)
(* content element, and the computed matrix read by getMatrixForElement    *)

\* t is "none" (''), "zero" (a 0ms transition) or "timed"
setTransition(s, t) ==
    IF t = "timed" THEN [s EXCEPT !.transition = t]
    ELSE [s EXCEPT !.transition = t, !.running = FALSE,
                   !.liveY = s.transformY]

setTransform(s, y) ==
    IF s.transition = "timed" /\ y # s.liveY
    THEN [s EXCEPT !.transformY = y, !.running = TRUE]
    ELSE [s EXCEPT !.transformY = y, !.liveY = y, !.running = FALSE]

\* elementMatrix.m42, read when the transition has come aProgress halves of
\* its way
getMatrixForElement(s, aProgress) ==
    s.liveY + ((s.transformY - s.liveY) * aProgress) \div 2

---------------------------------------------------------------------------
(* BoundsPolicy and indicator geometry *)

getLowestContentPosition(s) == (-s.elementHeight + s.frameHeight) * Milli

positionIsOutOfBounds(s, aPosition) ==
    aPosition > 0 \/ aPosition < getLowestContentPosition(s)

isOutOfBounds(s) == positionIsOutOfBounds(s, s.contentOffsetY)

getScrollBarLineHeight(s) ==
    LET height == Quot(s.frameHeight * s.frameHeight * Milli, s.elementHeight)
    IN  IF height < SCROLLBAR_MIN_HEIGHT * Milli
        THEN SCROLLBAR_MIN_HEIGHT * Milli ELSE height

---------------------------------------------------------------------------
(* Moving the content *)

animateTo(s, offsetY, opt_doNotAnimateScrollBar) ==
    LET s1 == setTransform([s EXCEPT !.contentOffsetY = offsetY], offsetY)
        lowestContentPosition == getLowestContentPosition(s)
        offsetYWithinBounds ==
            IF offsetY > 0 THEN 0
            ELSE IF offsetY < lowestContentPosition THEN lowestContentPosition
            ELSE offsetY
        deltaOutOfBounds == Abs(offsetY - offsetYWithinBounds)
        scrollBarLineReduced == getScrollBarLineHeight(s) - deltaOutOfBounds
        scrollBarLineReducedBounded ==
            IF scrollBarLineReduced < SCROLLBAR_MIN_HEIGHT * Milli
            THEN SCROLLBAR_MIN_HEIGHT * Milli ELSE scrollBarLineReduced
    IN  IF opt_doNotAnimateScrollBar THEN s1
        ELSE [s1 EXCEPT !.scrollBarLine = scrollBarLineReducedBounded]

animateWithinBounds(s, aOffsetY) ==
    LET lowestContentPosition == getLowestContentPosition(s)
        offsetY == IF aOffsetY > 0 THEN 0
                   ELSE IF aOffsetY < lowestContentPosition
                        THEN lowestContentPosition
                   ELSE aOffsetY
    IN  animateTo(s, offsetY, FALSE)

\* snapToBounds whose lower case moves the content by lowest instead of to
\* lowest
snapToBoundsRelative(s) ==
    LET s1 == setTransition(s, "timed")
        y  == IF s1.contentOffsetY > 0 THEN 0
              ELSE s1.contentOffsetY + getLowestContentPosition(s1)
        s2 == setTransform([s1 EXCEPT !.contentOffsetY = y], y)
    IN  [s2 EXCEPT !.scrollBarLine = getScrollBarLineHeight(s2),
                   !.isDecelerating_ = TRUE]

snapToBounds(s) ==
    LET s1 == setTransition(s, "timed")
        y  == IF s1.contentOffsetY > 0 THEN 0
              ELSE getLowestContentPosition(s1)
        s2 == setTransform([s1 EXCEPT !.contentOffsetY = y], y)
    IN  [s2 EXCEPT !.scrollBarLine = getScrollBarLineHeight(s2),
                   !.isDecelerating_ = TRUE]

---------------------------------------------------------------------------
(* VelocityEstimator and KinematicsPlanner *)

\* isDragging() also stores its result in isDragging_
isDragging(s) ==
    s.isDragging_ \/
    Abs(s.currentPoint_ - s.startTouchY) >= DRAG_THRESHOLD

\* shouldStartMomentum without the test of lines 948-949
shouldStartMomentumAlways(s) == TRUE

shouldStartMomentum(s) == IF isOutOfBounds(s) THEN FALSE ELSE TRUE

\* getEndVelocity without the cap of lines 1209-1211
getEndVelocityUncapped(s) ==
    LET dx == s.currentPoint_ - s.previousPoint_
        dt == s.currentMoment_ - s.previousMoment_
    IN  IF dt = 0
        THEN (IF dx = 0 THEN 0 ELSE sign(dx) * MAXIMUM_VELOCITY)
        ELSE Quot(dx * Milli, dt)

\* (x1 - x0) / (t1 - t0) in px/s: 0/0 is NaN and gives 0, x/0 is an
\* infinity and is capped like any velocity above MAXIMUM_VELOCITY
getEndVelocity(s) ==
    LET dx == s.currentPoint_ - s.previousPoint_
        dt == s.currentMoment_ - s.previousMoment_
        velocitySign == sign(dx)
    IN  IF dt = 0
        THEN (IF dx = 0 THEN 0 ELSE velocitySign * MAXIMUM_VELOCITY)
        ELSE IF Abs(dx) * Milli > MAXIMUM_VELOCITY * Abs(dt)
             THEN velocitySign * MAXIMUM_VELOCITY
             ELSE Quot(dx * Milli, dt)

getAcceleration(aVelocity) ==
    IF aVelocity < 0 THEN ACCELERATION_SLIDING ELSE -ACCELERATION_SLIDING

\* -(v * v) / (2 * a), in thousandths of a pixel, of the square v * v
stoppingDisplacement(aVelocitySquared, aAcceleration) ==
    Quot(-aVelocitySquared * 10, 2 * aAcceleration)

\* the square of getEndMomentumVelocity: v0*v0 + 2ad, in (px/s)^2
getEndMomentumVelocity(aStartVelocity, aDisplacement, aAcceleration) ==
    aStartVelocity * aStartVelocity +
    Quot(aDisplacement * 2 * aAcceleration, 10)

---------------------------------------------------------------------------
(* TransitionStateMachine *)

setUpTransitionStage1(s) ==
    LET velocity == getEndVelocity(s)
        acceleration == getAcceleration(velocity)
        bound == IF velocity > 0 THEN 0 ELSE getLowestContentPosition(s)
        displacement == bound - s.contentOffsetY
        endSquared ==
            getEndMomentumVelocity(velocity, displacement, acceleration)
        \* time = |velocity - endMomentumVelocity_| / acceleration is 0
        \* exactly when the end velocity equals the start velocity
        time == IF endSquared = velocity * velocity THEN "zero" ELSE "timed"
        s1 == [s EXCEPT !.contentOffsetY = bound,
                        !.endMomentumVelocity_ =
                            (IF velocity < 0 THEN -1 ELSE 1) * endSquared]
        s2 == setTransform(setTransition(s1, time), bound)
    IN  [s2 EXCEPT !.queuedTransitionStage_ = TO_BOUNDS]

\* setUpTransitionStage2 without the clamp of lines 1099-1102
setUpTransitionStage2Unclamped(s) ==
    LET velocity == s.endMomentumVelocity_
        acceleration ==
            getAcceleration(velocity) * ACCELERATION_BOUNCE_BACK_COEFF
        displacement == stoppingDisplacement(Abs(velocity), acceleration)
        newY == IF velocity > 0 THEN displacement
                ELSE s.contentOffsetY + displacement
        s1 == setTransform(
                  setTransition([s EXCEPT !.contentOffsetY = newY], "timed"),
                  newY)
        scrollBarLineReduced == getScrollBarLineHeight(s) - Abs(displacement)
    IN  [s1 EXCEPT !.scrollBarLine = scrollBarLineReduced,
                   !.queuedTransitionStage_ = BOUNCED_OUT]

setUpTransitionStage2(s) ==
    LET velocity == s.endMomentumVelocity_
        acceleration ==
            getAcceleration(velocity) * ACCELERATION_BOUNCE_BACK_COEFF
        planned == stoppingDisplacement(Abs(velocity), acceleration)
        displacement ==
            IF planned > OUT_OF_BOUNDS_MAXIMUM * Milli
            THEN OUT_OF_BOUNDS_MAXIMUM * Milli
            ELSE IF planned < -OUT_OF_BOUNDS_MAXIMUM * Milli
                 THEN -OUT_OF_BOUNDS_MAXIMUM * Milli
            ELSE planned
        newY == IF velocity > 0 THEN displacement
                ELSE s.contentOffsetY + displacement
        s1 == setTransform(
                  setTransition([s EXCEPT !.contentOffsetY = newY], "timed"),
                  newY)
        scrollBarLineReduced == getScrollBarLineHeight(s) - Abs(displacement)
    IN  [s1 EXCEPT !.scrollBarLine = scrollBarLineReduced,
                   !.queuedTransitionStage_ = BOUNCED_OUT]

\* setUpTransitionStage3 that snaps back without queueing BOUNCED_BACK
setUpTransitionStage3Unqueued(s) ==
    [snapToBounds(s) EXCEPT !.queuedTransitionStage_ = NONE]

setUpTransitionStage3(s) ==
    [snapToBounds(s) EXCEPT !.queuedTransitionStage_ = BOUNCED_BACK]

\* onTransitionEnd whose BOUNCED_BACK case leaves isDecelerating_ set
onTransitionEndStillDecelerating(s, targetIsElement) ==
    IF ~targetIsElement THEN s
    ELSE IF s.queuedTransitionStage_ = NONE
         THEN [setTransition(s, "none") EXCEPT !.isDecelerating_ = FALSE]
    ELSE IF s.queuedTransitionStage_ = TO_BOUNDS
         THEN setUpTransitionStage2(s)
    ELSE IF s.queuedTransitionStage_ = BOUNCED_OUT
         THEN setUpTransitionStage3(s)
    ELSE IF s.queuedTransitionStage_ = BOUNCED_BACK
         THEN [setTransition(s, "none") EXCEPT
                   !.queuedTransitionStage_ = NONE]
    ELSE s

\* onTransitionEnd without the target test of lines 740-742
onTransitionEndAnyTarget(s, targetIsElement) ==
    IF s.queuedTransitionStage_ = NONE
    THEN [setTransition(s, "none") EXCEPT !.isDecelerating_ = FALSE]
    ELSE IF s.queuedTransitionStage_ = TO_BOUNDS
         THEN setUpTransitionStage2(s)
    ELSE IF s.queuedTransitionStage_ = BOUNCED_OUT
         THEN setUpTransitionStage3(s)
    ELSE IF s.queuedTransitionStage_ = BOUNCED_BACK
         THEN [setTransition(s, "none") EXCEPT
                   !.queuedTransitionStage_ = NONE,
                   !.isDecelerating_ = FALSE]
    ELSE s

\* onTransitionEnd whose NONE case does nothing
onTransitionEndNoneIgnored(s, targetIsElement) ==
    IF ~targetIsElement THEN s
    ELSE IF s.queuedTransitionStage_ = NONE
         THEN s
    ELSE IF s.queuedTransitionStage_ = TO_BOUNDS
         THEN setUpTransitionStage2(s)
    ELSE IF s.queuedTransitionStage_ = BOUNCED_OUT
         THEN setUpTransitionStage3(s)
    ELSE IF s.queuedTransitionStage_ = BOUNCED_BACK
         THEN [setTransition(s, "none") EXCEPT
                   !.queuedTransitionStage_ = NONE,
                   !.isDecelerating_ = FALSE]
    ELSE s

onTransitionEnd(s, targetIsElement) ==
    IF ~targetIsElement THEN s
    ELSE IF s.queuedTransitionStage_ = NONE
         THEN [setTransition(s, "none") EXCEPT !.isDecelerating_ = FALSE]
    ELSE IF s.queuedTransitionStage_ = TO_BOUNDS
         THEN setUpTransitionStage2(s)
    ELSE IF s.queuedTransitionStage_ = BOUNCED_OUT
         THEN setUpTransitionStage3(s)
    ELSE IF s.queuedTransitionStage_ = BOUNCED_BACK
         THEN [setTransition(s, "none") EXCEPT
                   !.queuedTransitionStage_ = NONE,
                   !.isDecelerating_ = FALSE]
    ELSE s

---------------------------------------------------------------------------
(* ScrollerController: momentum and touch handlers *)

\* doMomentum without the test of line 1002: always the direct animation
doMomentumUnchecked(s) ==
    LET velocity == getEndVelocity(s)
        acceleration == getAcceleration(velocity)
        displacement ==
            stoppingDisplacement(velocity * velocity, acceleration)
        newY == s.contentOffsetY + displacement
        moved == setTransform(
                     [setTransition(s, "timed") EXCEPT
                          !.contentOffsetY = newY],
                     newY)
    IN  IF velocity # 0 THEN [moved EXCEPT !.isDecelerating_ = TRUE] ELSE s

doMomentum(s) ==
    LET velocity == getEndVelocity(s)
        acceleration == getAcceleration(velocity)
        displacement ==
            stoppingDisplacement(velocity * velocity, acceleration)
        newY == s.contentOffsetY + displacement
        moved == IF positionIsOutOfBounds(s, newY)
                 THEN setUpTransitionStage1(s)
                 ELSE setTransform(
                          [setTransition(s, "timed") EXCEPT
                               !.contentOffsetY = newY],
                          newY)
    IN  IF velocity # 0 THEN [moved EXCEPT !.isDecelerating_ = TRUE] ELSE s

\* stopMomentum that keeps the target of the stopped transition instead of
\* reading the computed matrix
stopMomentumAtTarget(s, aProgress) ==
    IF s.isDecelerating_
    THEN LET s1 == animateTo(setTransition(s, "none"), s.contentOffsetY,
                             TRUE)
         IN  [s1 EXCEPT !.queuedTransitionStage_ = NONE,
                        !.stopPropagationOnTouchEnd_ = TRUE,
                        !.isDecelerating_ = FALSE]
    ELSE [s EXCEPT !.stopPropagationOnTouchEnd_ = FALSE,
                   !.isDecelerating_ = FALSE]

\* stopMomentum without the reset of the stage of lines 1176-1177
stopMomentumStageKept(s, aProgress) ==
    IF s.isDecelerating_
    THEN LET m42 == getMatrixForElement(s, aProgress)
             s1 == animateTo(setTransition(s, "none"), m42, TRUE)
         IN  [s1 EXCEPT !.stopPropagationOnTouchEnd_ = TRUE,
                        !.isDecelerating_ = FALSE]
    ELSE [s EXCEPT !.stopPropagationOnTouchEnd_ = FALSE,
                   !.isDecelerating_ = FALSE]

\* stopMomentum without the isDecelerating_ = false of line 1184
stopMomentumStillDecelerating(s, aProgress) ==
    IF s.isDecelerating_
    THEN LET m42 == getMatrixForElement(s, aProgress)
             s1 == animateTo(setTransition(s, "none"), m42, TRUE)
         IN  [s1 EXCEPT !.queuedTransitionStage_ = NONE,
                        !.stopPropagationOnTouchEnd_ = TRUE]
    ELSE [s EXCEPT !.stopPropagationOnTouchEnd_ = FALSE]

stopMomentum(s, aProgress) ==
    IF s.isDecelerating_
    THEN LET m42 == getMatrixForElement(s, aProgress)
             s1 == animateTo(setTransition(s, "none"), m42, TRUE)
         IN  [s1 EXCEPT !.queuedTransitionStage_ = NONE,
                        !.stopPropagationOnTouchEnd_ = TRUE,
                        !.isDecelerating_ = FALSE]
    ELSE [s EXCEPT !.stopPropagationOnTouchEnd_ = FALSE,
                   !.isDecelerating_ = FALSE]

onTouchStart(s, clientY, now, aProgress) ==
    LET s1 == stopMomentum(s, aProgress)
    IN  [s1 EXCEPT !.startTouchY = clientY,
                   !.contentStartOffsetY = s1.contentOffsetY,
                   !.previousPoint_ = clientY, !.currentPoint_ = clientY,
                   !.previousMoment_ = now, !.currentMoment_ = now,
                   !.isDragging_ = TRUE]

onTouchMove(s, currentY, now) ==
    LET raw == currentY - s.startTouchY
        deltaY == IF isOutOfBounds(s) THEN rubberBand(raw) ELSE raw * Milli
        newY == deltaY + s.contentStartOffsetY
        s1 == [s EXCEPT !.isDragging_ = TRUE,
                        !.previousPoint_ = s.currentPoint_,
                        !.previousMoment_ = s.currentMoment_,
                        !.currentPoint_ = currentY,
                        !.currentMoment_ = now]
    IN  IF isDragging(s) THEN animateTo(s1, newY, FALSE) ELSE s

\* onTouchEnd that does not consult stopPropagationOnTouchEnd_ (line 656)
onTouchEndUnflagged(s) ==
    LET s1 == IF isDragging(s)
              THEN (IF shouldStartMomentum(s) THEN doMomentum(s)
                    ELSE snapToBounds(s))
              ELSE s
        swallow == Abs(s1.currentPoint_ - s1.startTouchY) >= DRAG_THRESHOLD
    IN  [s1 EXCEPT !.stopPropagationOnTouchEnd_ = FALSE,
                   !.clicked = ~swallow,
                   !.previousPoint_ = 0, !.previousMoment_ = 0,
                   !.currentPoint_ = 0, !.currentMoment_ = 0,
                   !.startTouchY = 0, !.isDragging_ = FALSE]

onTouchEnd(s) ==
    LET s1 == IF isDragging(s)
              THEN (IF shouldStartMomentum(s) THEN doMomentum(s)
                    ELSE snapToBounds(s))
              ELSE s
        swallow == s1.stopPropagationOnTouchEnd_ \/
                   Abs(s1.currentPoint_ - s1.startTouchY) >= DRAG_THRESHOLD
    IN  [s1 EXCEPT !.stopPropagationOnTouchEnd_ = FALSE,
                   !.clicked = ~swallow,
                   !.previousPoint_ = 0, !.previousMoment_ = 0,
                   !.currentPoint_ = 0, !.currentMoment_ = 0,
                   !.startTouchY = 0, !.isDragging_ = FALSE]

---------------------------------------------------------------------------
(* ScrollerController: public operations *)

\* enable without the floor of lines 381-383
enableUnfloored(s, aEnabled, aSize) ==
    IF s.enabled_ = (IF aEnabled THEN "true" ELSE "false") THEN s
    ELSE IF aEnabled
    THEN LET s1 == [s EXCEPT !.enabled_ = "true",
                             !.instancesCount_ = s.instancesCount_ + 1,
                             !.frameHeight = aSize[1],
                             !.elementHeight = aSize[2]]
             s2 == animateWithinBounds(s1, s1.contentOffsetY)
         IN  [s2 EXCEPT !.scrollBarLine = getScrollBarLineHeight(s2)]
    ELSE [s EXCEPT !.enabled_ = "false",
                   !.instancesCount_ = s.instancesCount_ - 1]

\* enabled_ is "undefined" until first set; undefined == aEnabled is false
\* for both booleans, so only an equal boolean returns early
enable(s, aEnabled, aSize) ==
    IF s.enabled_ = (IF aEnabled THEN "true" ELSE "false") THEN s
    ELSE IF aEnabled
    THEN LET s1 == [s EXCEPT !.enabled_ = "true",
                             !.instancesCount_ = s.instancesCount_ + 1,
                             !.frameHeight = aSize[1],
                             !.elementHeight = aSize[2]]
             s2 == animateWithinBounds(s1, s1.contentOffsetY)
         IN  [s2 EXCEPT !.scrollBarLine = getScrollBarLineHeight(s2)]
    ELSE [s EXCEPT !.enabled_ = "false",
                   !.instancesCount_ =
                       IF s.instancesCount_ - 1 < 0 THEN 0
                       ELSE s.instancesCount_ - 1]

resetInternal(s) ==
    [s EXCEPT !.startTouchY = 0, !.contentOffsetY = 0,
              !.contentStartOffsetY = 0]

add(s, aSize) == enable(s, TRUE, aSize)

remove(s) == enable(s, FALSE, <<0, 0>>)

reset(s, aSize) == add(resetInternal(remove(s)), aSize)

suspend(s) == remove(s)

resume(s, aSize) ==
    LET s1 == add(s, aSize) IN animateWithinBounds(s1, s1.contentOffsetY)

disposeInternal(s) == resetInternal(enable(s, FALSE, <<0, 0>>))

getScrollTop(s) == IF s.contentOffsetY = 0 THEN 0 ELSE -s.contentOffsetY

\* setScrollTop without the negation of line 471
setScrollTopUnnegated(s, aScrollTop) ==
    LET scrollTop == IF aScrollTop.nan \/ aScrollTop.v = 0 THEN 0
                     ELSE aScrollTop.v * Milli
    IN  animateWithinBounds(s, scrollTop)

setScrollTop(s, aScrollTop) ==
    LET scrollTop == IF aScrollTop.nan \/ aScrollTop.v = 0 THEN 0
                     ELSE -aScrollTop.v * Milli
    IN  animateWithinBounds(s, scrollTop)

---------------------------------------------------------------------------
(* The state machine *)

Init ==
    /\ enabled_ = "undefined"
    /\ elementHeight = 0
    /\ frameHeight = 0
    /\ startTouchY = 0
    /\ contentOffsetY = 0
    /\ contentStartOffsetY = 0
    /\ previousPoint_ = 0
    /\ previousMoment_ = 0
    /\ currentPoint_ = 0
    /\ currentMoment_ = 0
    /\ isDragging_ = FALSE
    /\ isDecelerating_ = FALSE
    /\ stopPropagationOnTouchEnd_ = FALSE
    /\ queuedTransitionStage_ = NONE
    /\ endMomentumVelocity_ = 0
    /\ instancesCount_ = 0
    /\ transition = "none"
    /\ transformY = 0
    /\ liveY = 0
    /\ running = FALSE
    /\ scrollBarLine = 0
    /\ clicked = FALSE
    /\ finished = -1
    /\ gestures = 0
    /\ stray = "none"

Attached == enabled_ = "true"

\* the state is the record t
Is(t) ==
    /\ enabled_ = t.enabled_
    /\ elementHeight = t.elementHeight
    /\ frameHeight = t.frameHeight
    /\ startTouchY = t.startTouchY
    /\ contentOffsetY = t.contentOffsetY
    /\ contentStartOffsetY = t.contentStartOffsetY
    /\ previousPoint_ = t.previousPoint_
    /\ previousMoment_ = t.previousMoment_
    /\ currentPoint_ = t.currentPoint_
    /\ currentMoment_ = t.currentMoment_
    /\ isDragging_ = t.isDragging_
    /\ isDecelerating_ = t.isDecelerating_
    /\ stopPropagationOnTouchEnd_ = t.stopPropagationOnTouchEnd_
    /\ queuedTransitionStage_ = t.queuedTransitionStage_
    /\ endMomentumVelocity_ = t.endMomentumVelocity_
    /\ instancesCount_ = t.instancesCount_
    /\ transition = t.transition
    /\ transformY = t.transformY
    /\ liveY = t.liveY
    /\ running = t.running
    /\ scrollBarLine = t.scrollBarLine
    /\ clicked = t.clicked

\* the scroller as constructed
Fresh ==
    [enabled_ |-> "undefined", elementHeight |-> 0, frameHeight |-> 0,
     startTouchY |-> 0, contentOffsetY |-> 0, contentStartOffsetY |-> 0,
     previousPoint_ |-> 0, previousMoment_ |-> 0, currentPoint_ |-> 0,
     currentMoment_ |-> 0, isDragging_ |-> FALSE, isDecelerating_ |-> FALSE,
     stopPropagationOnTouchEnd_ |-> FALSE, queuedTransitionStage_ |-> NONE,
     endMomentumVelocity_ |-> 0, instancesCount_ |-> 0,
     transition |-> "none", transformY |-> 0, liveY |-> 0,
     running |-> FALSE, scrollBarLine |-> 0, clicked |-> FALSE]

\* a drag of two touch-moves on a scroller attached to frame 300 and
\* content 900 and scrolled to aTop
Dragged(aTop, y1, t1, y2, t2) ==
    LET attached == setScrollTop(add(Fresh, <<300, 900>>), Num(aTop))
        started  == onTouchStart(attached, 100, Epoch, 0)
    IN  onTouchMove(onTouchMove(started, y1, t1), y2, t2)

\* the drags about to be released
InitRelease ==
    /\ \E aTop \in SampleTops, y1 \in SamplePoints, y2 \in SamplePoints,
          t1 \in SampleMoments, t2 \in SampleMoments :
          Is(Dragged(aTop, y1, t1, y2, t2))
    /\ finished = -1
    /\ gestures = 1
    /\ stray = "none"

\* the sizes calculateSizes measures: those of the first attach
Measured(g) == enabled_ = "undefined" \/ g = <<frameHeight, elementHeight>>

\* a call of the public API, a touch-start or a touch-move
Call(t) ==
    /\ Becomes([t EXCEPT !.clicked = FALSE])
    /\ finished' = -1
    /\ stray' = "none"

Add ==
    /\ enabled_ # "true"
    /\ \E g \in Geometries : Measured(g) /\ Call(add(This, g))
    /\ UNCHANGED gestures

Remove ==
    /\ Attached
    /\ Call(remove(This))
    /\ UNCHANGED gestures

Reset ==
    /\ Attached
    /\ \E g \in Geometries : Measured(g) /\ Call(reset(This, g))
    /\ UNCHANGED gestures

Resume ==
    /\ enabled_ = "false"
    /\ \E g \in Geometries : Measured(g) /\ Call(resume(This, g))
    /\ UNCHANGED gestures

SetScrollTopTo(a) ==
    /\ Attached
    /\ Call(setScrollTop(This, a))
    /\ UNCHANGED gestures

SetScrollTop == \E a \in ScrollTops : SetScrollTopTo(a)

TouchStartAt(aProgress) ==
    /\ Attached
    /\ gestures < MaxGestures
    /\ \E y \in StartYs : Call(onTouchStart(This, y, Epoch, aProgress))
    /\ gestures' = gestures + 1

TouchStart == \E aProgress \in Progress : TouchStartAt(aProgress)

\* single-touch sequences: a touch-move or touch-end follows a touch-start,
\* whose finger is down exactly while isDragging_ is set
TouchMove ==
    /\ Attached
    /\ isDragging_
    /\ \E y \in MoveYs, now \in Nows :
          Call(onTouchMove(This, y, now))
    /\ UNCHANGED gestures

TouchEnd ==
    /\ Attached
    /\ isDragging_
    /\ Becomes(onTouchEnd(This))
    /\ finished' = 0
    /\ stray' = "none"
    /\ UNCHANGED gestures

\* the running transition completes and the element's listener, if the
\* scroller is attached, receives transitionend
TransitionEnd ==
    /\ running
    /\ LET done == [This EXCEPT !.liveY = transformY, !.running = FALSE]
           t == IF Attached THEN onTransitionEnd(done, TRUE) ELSE done
       IN  Becomes([t EXCEPT !.clicked = FALSE])
    /\ finished' = IF Attached /\ finished >= 0 THEN finished + 1
                   ELSE finished
    /\ stray' = "none"
    /\ UNCHANGED gestures

Next ==
    \/ Add
    \/ SetScrollTop
    \/ TouchStart
    \/ TouchMove
    \/ TouchEnd
    \/ TransitionEnd

Spec == Init /\ [][Next]_vars

\* the same with the scroller detached, reset and resumed along the way
NextLifecycle ==
    \/ Next
    \/ Remove
    \/ Reset
    \/ Resume

SpecLifecycle == Init /\ [][NextLifecycle]_vars

\* the release of a drag, over a wide range of samples, and the
\* transitions that follow it
NextRelease ==
    \/ TouchEnd
    \/ TransitionEnd

SpecRelease == InitRelease /\ [][NextRelease]_vars

\* the transition of another element (a descendant of the content element,
\* whose events bubble to the listener of line 522) finishes
ForeignTransitionEnd ==
    /\ Attached
    /\ Becomes([onTransitionEnd(This, FALSE) EXCEPT !.clicked = FALSE])
    /\ stray' = "ignored"
    /\ UNCHANGED <<finished, gestures>>

\* remove, suspend or dispose at any time, on a scroller never attached or
\* already detached too
Detach ==
    /\ \/ Call(remove(This))
       \/ Call(suspend(This))
       \/ Call(disposeInternal(This))
    /\ UNCHANGED gestures

\* another scroller, so far never attached, is attached: enable(true)
\* counts it in the process-wide counter
OtherAdd ==
    /\ instancesCount_ < MaxInstances
    /\ \E g \in Geometries :
          LET other == add([Fresh EXCEPT
                                !.instancesCount_ = instancesCount_], g)
          IN  Call([This EXCEPT !.instancesCount_ = other.instancesCount_])
    /\ UNCHANGED gestures

\* another scroller, attached or never attached, is removed: in both cases
\* enable(false) passes the early return and counts down
OtherRemove ==
    /\ \E e \in {"undefined", "true"} :
          LET other == remove([Fresh EXCEPT
                                   !.enabled_ = e,
                                   !.instancesCount_ = instancesCount_])
          IN  Call([This EXCEPT !.instancesCount_ = other.instancesCount_])
    /\ UNCHANGED gestures

\* the life cycle of this scroller among other scrollers of the page
NextInstances ==
    \/ Add
    \/ Detach
    \/ Reset
    \/ Resume
    \/ SetScrollTop
    \/ OtherAdd
    \/ OtherRemove

SpecInstances == Init /\ [][NextInstances]_vars

\* a drag that has brought the content of an attached scroller to aOffsetY
Held(g, aOffsetY) ==
    animateTo(onTouchStart(add(Fresh, g), 100, Epoch, 0),
              aOffsetY * Milli, FALSE)

InitSnap ==
    /\ \E g \in Geometries, o \in SnapOffsets : Is(Held(g, o))
    /\ finished = -1
    /\ gestures = 1
    /\ stray = "none"

\* snapToBounds is invoked, as from onTouchEnd or setUpTransitionStage3
Snap ==
    /\ Becomes(snapToBounds(This))
    /\ UNCHANGED <<finished, gestures, stray>>

\* snapToBounds invoked any number of times in succession, from any offset
NextSnap ==
    \/ Snap

SpecSnap == InitSnap /\ [][NextSnap]_vars

\* the handlers and calls of Spec with the transitions of other elements
\* finishing among them
NextForeign ==
    \/ Next
    \/ ForeignTransitionEnd

SpecForeign == Init /\ [][NextForeign]_vars

\* a touchstart whose touches list is empty: stopMomentum has run when the
\* read of touches[0].clientY at line 586 throws
MalformedTouchStartAt(aProgress) ==
    /\ Attached
    /\ Becomes([stopMomentum(This, aProgress) EXCEPT !.clicked = FALSE])
    /\ finished' = -1
    /\ stray' = "raised"
    /\ UNCHANGED gestures

MalformedTouchStart ==
    \E aProgress \in Progress : MalformedTouchStartAt(aProgress)

\* a touchmove whose touches list is empty: the read of line 604 throws if
\* isDragging() holds, else the handler does nothing
MalformedTouchMove ==
    /\ Attached
    /\ Becomes([This EXCEPT !.clicked = FALSE])
    /\ stray' = IF isDragging(This) THEN "raised" ELSE "ignored"
    /\ UNCHANGED <<finished, gestures>>

\* a touchend whose touches list is empty: onTouchEnd never reads it
MalformedTouchEnd ==
    /\ Attached
    /\ isDragging_
    /\ Becomes(onTouchEnd(This))
    /\ finished' = 0
    /\ stray' = "handled"
    /\ UNCHANGED gestures

\* the handlers and calls of Spec with touch events that carry no touch
\* point among them
NextMalformed ==
    \/ Next
    \/ MalformedTouchStart
    \/ MalformedTouchMove
    \/ MalformedTouchEnd

SpecMalformed == Init /\ [][NextMalformed]_vars

---------------------------------------------------------------------------
(* Properties *)

Lowest == getLowestContentPosition(This)

\* the geometry of the scenarios: frame height 300, content height 900
Scenario == Attached /\ frameHeight = 300 /\ elementHeight = 900

Resting ==
    /\ Attached
    /\ queuedTransitionStage_ = NONE
    /\ ~isDragging_
    /\ ~isDecelerating_

\* the bound a bounce sequence in flight is directed to
PendingBound == IF endMomentumVelocity_ > 0 THEN 0 ELSE Lowest

\* the release velocity a touch-end in this state computes
ReleaseVelocity == getEndVelocity(This)

\* C1: in every resting state of an attached scroller (stage NONE, neither
\* dragging nor decelerating) lowest <= contentOffset <= 0.
C1_RestingWithinBounds ==
    Resting => Lowest <= contentOffsetY /\ contentOffsetY <= 0

\* C2: the stage changes only along NONE -> TO_BOUNDS on a touch-end,
\* TO_BOUNDS -> BOUNCED_OUT -> BOUNCED_BACK -> NONE on one transitionend
\* each, and from any stage to NONE on a touch-start; every transitionend
\* handled in a stage other than NONE advances it by exactly one edge.
C2_Edge ==
    \/ queuedTransitionStage_' = queuedTransitionStage_
    \/ /\ queuedTransitionStage_ = NONE
       /\ queuedTransitionStage_' = TO_BOUNDS
       /\ TouchEnd
    \/ /\ queuedTransitionStage_ = TO_BOUNDS
       /\ queuedTransitionStage_' = BOUNCED_OUT
       /\ TransitionEnd
    \/ /\ queuedTransitionStage_ = BOUNCED_OUT
       /\ queuedTransitionStage_' = BOUNCED_BACK
       /\ TransitionEnd
    \/ /\ queuedTransitionStage_ = BOUNCED_BACK
       /\ queuedTransitionStage_' = NONE
       /\ TransitionEnd
    \/ /\ queuedTransitionStage_' = NONE
       /\ TouchStart

C2_StageEdges ==
    [][/\ C2_Edge
       /\ (queuedTransitionStage_ # NONE /\ TransitionEnd) =>
              queuedTransitionStage_' # queuedTransitionStage_]_vars

\* C2 witness: a bounce sequence that went round the whole cycle
C2_Witness ==
    /\ finished = 3
    /\ queuedTransitionStage_ = NONE
    /\ endMomentumVelocity_ > 0

\* C3: after every touch-start the stage is NONE, isDecelerating is false
\* and isDragging is true; when it interrupted a deceleration or bounce,
\* contentOffset and the drag's start offset are the renderer's live offset
\* read at that moment.
C3_TouchStartCollapses ==
    [][\A aProgress \in Progress :
          TouchStartAt(aProgress) =>
              /\ queuedTransitionStage_' = NONE
              /\ ~isDecelerating_'
              /\ isDragging_'
              /\ isDecelerating_ =>
                     /\ contentOffsetY' =
                            getMatrixForElement(This, aProgress)
                     /\ contentStartOffsetY' = contentOffsetY'
                     /\ transformY' = contentOffsetY'
                     /\ ~running']_vars

\* C3 witness: a touch-start has interrupted, half way from -57 to -47,
\* the deceleration of a release at 0.1 px/ms
C3_Witness ==
    /\ Scenario
    /\ isDragging_
    /\ stopPropagationOnTouchEnd_
    /\ currentPoint_ = startTouchY
    /\ contentOffsetY = -52 * Milli
    /\ contentStartOffsetY = contentOffsetY
    /\ liveY = contentOffsetY

\* C4: a release that enters TO_BOUNDS targets bound B (0 for a positive
\* release velocity, lowest for a negative one); the three transitionend
\* events that follow it with no touch event or API call in between visit
\* BOUNCED_OUT, BOUNCED_BACK and NONE in that order, and the last leaves
\* contentOffset exactly B and isDecelerating false.
C4_Step ==
    /\ (queuedTransitionStage_' = TO_BOUNDS /\ TouchEnd) =>
           /\ contentOffsetY' = (IF ReleaseVelocity > 0 THEN 0 ELSE Lowest)
           /\ (endMomentumVelocity_' > 0) = (ReleaseVelocity > 0)
           /\ finished' = 0
    /\ (finished >= 0 /\ queuedTransitionStage_ # NONE /\ TransitionEnd) =>
           /\ endMomentumVelocity_' = endMomentumVelocity_
           /\ finished = 0 => /\ queuedTransitionStage_ = TO_BOUNDS
                              /\ queuedTransitionStage_' = BOUNCED_OUT
           /\ finished = 1 => /\ queuedTransitionStage_ = BOUNCED_OUT
                              /\ queuedTransitionStage_' = BOUNCED_BACK
           /\ finished = 2 => /\ queuedTransitionStage_ = BOUNCED_BACK
                              /\ queuedTransitionStage_' = NONE
                              /\ contentOffsetY' = PendingBound
                              /\ ~isDecelerating_'
           /\ finished < 3

C4_BounceSequence == [][C4_Step]_vars

\* C4 witness: the third transitionend of a bounce at the lower bound
C4_Witness ==
    /\ Scenario
    /\ finished = 3
    /\ queuedTransitionStage_ = NONE
    /\ ~isDecelerating_
    /\ endMomentumVelocity_ < 0
    /\ contentOffsetY = Lowest

\* C5: after a touch-end with no further touch event or API call, as long
\* as the scroller has not come to rest at stage NONE with isDecelerating
\* false, a transition that changes the rendered offset is in flight, whose
\* transitionend will move the machine on (no stage is stuck).
C5_NoStageStuck ==
    (Attached /\ finished >= 0) =>
        \/ queuedTransitionStage_ = NONE /\ ~isDecelerating_
        \/ running

\* C6: the overshoot planned on TO_BOUNDS -> BOUNCED_OUT has magnitude at
\* most OUT_OF_BOUNDS_MAXIMUM, and in BOUNCED_OUT contentOffset is within
\* [lowest - 100, 100].
C6_OvershootBounded ==
    queuedTransitionStage_ = BOUNCED_OUT =>
        /\ Lowest - OUT_OF_BOUNDS_MAXIMUM * Milli <= contentOffsetY
        /\ contentOffsetY <= OUT_OF_BOUNDS_MAXIMUM * Milli
        /\ finished = 1 =>
               Abs(contentOffsetY - PendingBound)
                   <= OUT_OF_BOUNDS_MAXIMUM * Milli

\* C6 witness: an overshoot the clamp has cut to the maximum
C6_Witness ==
    /\ queuedTransitionStage_ = BOUNCED_OUT
    /\ finished = 1
    /\ contentOffsetY = Lowest - OUT_OF_BOUNDS_MAXIMUM * Milli

\* C7 (as stated): with frame 300 and content 900, a drag released in
\* bounds with velocity magnitude 2.0 px/ms animates directly to
\* offset + displacement and the stage stays NONE.
C7_DirectAtVelocity2 ==
    [][(Scenario /\ ~isOutOfBounds(This) /\ Abs(ReleaseVelocity) = 2000
           /\ TouchEnd) =>
          /\ queuedTransitionStage_' = NONE
          /\ contentOffsetY' = contentOffsetY +
                 stoppingDisplacement(ReleaseVelocity * ReleaseVelocity,
                                      getAcceleration(ReleaseVelocity))]_vars

\* C7 (amended): with frame 300 and content 900, a drag released in bounds
\* with a non-zero velocity animates directly to offset + displacement,
\* the stage staying NONE also when that transition finishes, exactly when
\* offset + displacement is in bounds, as it is for some releases of
\* velocity magnitude 0.1 px/ms (displacement 10 px); a release of
\* velocity magnitude 2.0 px/ms (displacement 4000 px, more than the 600 px
\* of travel) always enters TO_BOUNDS.
C7_Step ==
    /\ (Scenario /\ ~isOutOfBounds(This) /\ ReleaseVelocity # 0
           /\ TouchEnd) =>
           LET target == contentOffsetY +
                   stoppingDisplacement(ReleaseVelocity * ReleaseVelocity,
                                        getAcceleration(ReleaseVelocity))
           IN  /\ isDecelerating_'
               /\ IF positionIsOutOfBounds(This, target)
                  THEN queuedTransitionStage_' = TO_BOUNDS
                  ELSE /\ queuedTransitionStage_' = NONE
                       /\ contentOffsetY' = target
                       /\ Abs(ReleaseVelocity) < 2000
    /\ (finished = 0 /\ queuedTransitionStage_ = NONE /\ TransitionEnd) =>
           /\ queuedTransitionStage_' = NONE
           /\ contentOffsetY' = contentOffsetY

C7_DirectWhenWithinBounds == [][C7_Step]_vars

\* C7 witness: a release at 0.1 px/ms from offset -57 animating to -47
C7_Witness ==
    /\ Scenario
    /\ finished = 0
    /\ queuedTransitionStage_ = NONE
    /\ isDecelerating_
    /\ running
    /\ liveY = -57 * Milli
    /\ contentOffsetY = -47 * Milli
    /\ transformY = contentOffsetY

\* C8: with frame 300 and content 900, in a drag that started at
\* contentOffset 0, the touch-move that puts the finger +60 from the start
\* and first takes the content out of bounds renders a damped offset
\* strictly between 0 and 60.
C8_DampedOnFirstSample ==
    [][(Scenario /\ isDragging_ /\ contentStartOffsetY = 0
           /\ ~isOutOfBounds(This) /\ currentPoint_' - startTouchY = 60
           /\ TouchMove) =>
          (0 < contentOffsetY' /\ contentOffsetY' < 60 * Milli)]_vars

\* C9 (as stated): with frame 300 and content 900, setScrollTop(-10000)
\* leaves contentOffset = -600.
C9_NegativeArgumentToLowest ==
    [][(Scenario /\ SetScrollTopTo(Num(-10000))) =>
          contentOffsetY' = -600 * Milli]_vars

\* C9 (amended): with frame 300 and content 900, setScrollTop(10000)
\* leaves contentOffset = -600 (scroll top 600), and setScrollTop(-10000)
\* leaves contentOffset = 0.
C9_PositiveArgumentToLowest ==
    [][Scenario =>
          /\ SetScrollTopTo(Num(10000)) =>
                 /\ contentOffsetY' = -600 * Milli
                 /\ getScrollTop(This)' = 600 * Milli
          /\ SetScrollTopTo(Num(-10000)) => contentOffsetY' = 0]_vars

\* C9 witness: setScrollTop(10000) before any gesture
C9_Witness ==
    /\ Scenario
    /\ gestures = 0
    /\ contentOffsetY = -600 * Milli
    /\ transformY = -600 * Milli

\* C10: for every argument v, right after setScrollTop(v) contentOffset is
\* -v clamped into [lowest, 0] (0 for NaN), and getScrollTop() returns the
\* non-negative value -contentOffset.
C10_SetThenGet ==
    [][\A a \in ScrollTops :
          SetScrollTopTo(a) =>
              LET wanted  == IF a.nan THEN 0 ELSE -a.v * Milli
                  clamped == IF wanted > 0 THEN 0
                             ELSE IF wanted < Lowest THEN Lowest
                             ELSE wanted
              IN  /\ contentOffsetY' = clamped
                  /\ getScrollTop(This)' = -contentOffsetY'
                  /\ getScrollTop(This)' >= 0]_vars
\* the finger's last sampled position is less than DRAG_THRESHOLD from the
\* start point of the gesture
WithinThreshold == Abs(currentPoint_ - startTouchY) < DRAG_THRESHOLD

\* C11: for a tap (a touch-start that interrupts nothing, at most one
\* touch-move, the finger staying less than DRAG_THRESHOLD from the start
\* point and nothing but the finger displacing the content, then a
\* touch-end) contentOffset after the touch-end equals contentOffset before
\* the touch-start, and no momentum or snap transition is started.
C11_TapLeavesOffset ==
    [][(WithinThreshold /\ previousPoint_ = startTouchY
           /\ ~stopPropagationOnTouchEnd_
           /\ contentOffsetY =
                  contentStartOffsetY + (currentPoint_ - startTouchY) * Milli
           /\ TouchEnd) =>
          /\ contentOffsetY' = contentStartOffsetY
          /\ ~isDecelerating_'
          /\ ~running']_vars

\* C12 (as stated): every touch-end whose last sampled finger position is
\* less than DRAG_THRESHOLD from the start point synthesizes a click, also
\* when the touch-start of the gesture interrupted a deceleration.
C12_TapAlwaysClicks ==
    [][(WithinThreshold /\ TouchEnd) => clicked']_vars

\* C12 (amended): a touch-end synthesizes a click exactly when the last
\* sampled finger position is less than DRAG_THRESHOLD from the start point
\* and the touch-start of the gesture did not interrupt a deceleration
\* (stopPropagationOnTouchEnd_ is not set); otherwise the touch-end is
\* swallowed, and it always leaves stopPropagationOnTouchEnd_ cleared.
C12_TapClicksUnlessInterrupting ==
    [][TouchEnd =>
          /\ clicked' = (WithinThreshold /\ ~stopPropagationOnTouchEnd_)
          /\ ~stopPropagationOnTouchEnd_']_vars

\* C12 witness: a tap on a scroller scrolled to offset -60 has synthesized
\* a click
C12_Witness ==
    /\ Scenario
    /\ clicked
    /\ finished = 0
    /\ contentOffsetY = -60 * Milli
    /\ ~isDecelerating_
\* C13: when the two velocity samples have the same timestamp the release
\* velocity is 0 and the touch-end starts no momentum, whatever the position
\* difference between the samples.
C13_ZeroDurationIsZeroVelocity ==
    [][(currentMoment_ = previousMoment_ /\ TouchEnd) =>
          /\ ReleaseVelocity = 0
          /\ isOutOfBounds(This) \/ ~isDecelerating_']_vars

\* C14: for every pair of drag samples, whatever the position difference
\* and the time difference (zero and negative included), the release
\* velocity has magnitude at most MAXIMUM_VELOCITY.
C14_VelocityCapped == Abs(ReleaseVelocity) <= MAXIMUM_VELOCITY

\* C14 witness: a velocity of -4 px/ms, over a clock that stepped back 30 ms,
\* capped
C14_Witness ==
    /\ isDragging_
    /\ currentPoint_ - previousPoint_ = 120
    /\ currentMoment_ - previousMoment_ = -30
    /\ Abs(ReleaseVelocity) = MAXIMUM_VELOCITY
\* C15: a transitionend whose target is not the content element changes
\* nothing, in every stage: the stage, the content offset, isDecelerating_
\* and the pending end velocity are unchanged, and so are the drag flags and
\* the rendered transform and transition.
C15_ForeignTransitionEndIgnored ==
    [][ForeignTransitionEnd =>
          UNCHANGED <<queuedTransitionStage_, contentOffsetY, isDecelerating_,
                      endMomentumVelocity_, isDragging_,
                      stopPropagationOnTouchEnd_, transition, transformY,
                      liveY, running, scrollBarLine>>]_vars

\* C15 witness: a foreign transitionend was delivered during the bounce-out
\* and the bounce-out is still running
C15_Witness ==
    /\ stray = "ignored"
    /\ queuedTransitionStage_ = BOUNCED_OUT
    /\ isDecelerating_ /\ running
    /\ endMomentumVelocity_ # 0

\* C16 (as stated): a transitionend of the content element in stage NONE
\* leaves the content offset, the stage, isDragging_ and isDecelerating_
\* unchanged.
C16_NoneIsNoOp ==
    [][(Attached /\ queuedTransitionStage_ = NONE /\ TransitionEnd) =>
          UNCHANGED <<contentOffsetY, queuedTransitionStage_, isDragging_,
                      isDecelerating_>>]_vars

\* C16 (amended): a transitionend of the content element in stage NONE
\* leaves the content offset, the stage and isDragging_ unchanged, clears
\* isDecelerating_ and removes the transition.
C16_NoneEndsDeceleration ==
    [][(Attached /\ queuedTransitionStage_ = NONE /\ TransitionEnd) =>
          /\ UNCHANGED <<contentOffsetY, queuedTransitionStage_, isDragging_>>
          /\ ~isDecelerating_'
          /\ transition' = "none"]_vars

\* C16 witness: the transitionend of a direct deceleration was handled in
\* stage NONE
C16_Witness ==
    /\ Scenario /\ finished = 1
    /\ queuedTransitionStage_ = NONE /\ ~isDecelerating_
    /\ transition = "none" /\ ~running
    /\ contentStartOffsetY = -60 * Milli
    /\ contentOffsetY = -47 * Milli
\* C17: isDragging_ and isDecelerating_ are never both set in a state
\* between two handlers, after any sequence of touch events, transitionend
\* events and API calls.
C17_DraggingExcludesDecelerating == ~(isDragging_ /\ isDecelerating_)

\* C17 witness: a touch-start interrupted a deceleration and the drag it
\* began is under way
C17_Witness ==
    /\ isDragging_ /\ ~isDecelerating_
    /\ stopPropagationOnTouchEnd_
    /\ gestures = 2
    /\ currentPoint_ # startTouchY

\* C18: a touch-start, touch-move or touch-end without a touch point is
\* ignored: it raises no error and leaves the content offset, the flags, the
\* stage and the drag samples unchanged, also during a deceleration.
C18_MalformedTouchIgnored ==
    [][(MalformedTouchStart \/ MalformedTouchMove \/ MalformedTouchEnd) =>
          /\ stray' = "ignored"
          /\ UNCHANGED <<contentOffsetY, isDragging_, isDecelerating_,
                         queuedTransitionStage_, previousPoint_,
                         previousMoment_, currentPoint_, currentMoment_,
                         startTouchY, contentStartOffsetY>>]_vars
\* C19: after reset the scroller is in its initial state whatever the
\* state before: the content offset is 0, the stage is NONE and
\* isDecelerating_ is false, so that a later transitionend does not move the
\* content.
C19_ResetIsInitial ==
    [][Reset =>
          /\ contentOffsetY' = 0
          /\ queuedTransitionStage_' = NONE
          /\ ~isDecelerating_']_vars

\* C20 (as stated): suspend leaves the content offset as it is, and resume
\* with unchanged sizes leaves an offset within [lowest, 0] as it is and
\* renders any other offset clamped into [lowest, 0].
C20_ResumeRestoresOffset ==
    [][/\ Remove => contentOffsetY' = contentOffsetY
       /\ Resume =>
             /\ ~isOutOfBounds(This) => contentOffsetY' = contentOffsetY
             /\ Lowest' <= contentOffsetY' /\ contentOffsetY' <= 0
             /\ transformY' = contentOffsetY']_vars
\* C21: the process-wide instance counter is never negative, after any
\* sequence of add, remove, reset, suspend, resume and dispose calls on this
\* and on other scrollers; a detach that would take it below zero leaves it
\* at zero.
C21_CounterNeverNegative == instancesCount_ >= 0

\* C21 witness: a scroller that was never attached has been detached with
\* the counter at zero
C21_Witness ==
    /\ enabled_ = "false"
    /\ frameHeight = 0
    /\ instancesCount_ = 0
\* C22: every indicator length rendered for an attached scroller is at least
\* SCROLLBAR_MIN_HEIGHT, in every phase: attach, drag, direct momentum, snap
\* and each bounce stage.
C22_IndicatorAtLeastMinimum ==
    Attached => scrollBarLine >= SCROLLBAR_MIN_HEIGHT * Milli
\* C23: snapToBounds invoked again after an invocation that started from an
\* in-bounds content offset (the renderer still shows the transition from
\* that offset, liveY) leaves the content offset unchanged.
C23_SecondSnapKeepsOffset ==
    [][(Snap /\ isDecelerating_ /\ ~positionIsOutOfBounds(This, liveY)) =>
          contentOffsetY' = contentOffsetY]_vars

\* C23 witness: snapToBounds has been invoked from the in-bounds offset -300
\* and invoking it again yields the same offset
C23_Witness ==
    /\ Scenario /\ isDecelerating_ /\ running
    /\ liveY = -300 * Milli
    /\ contentOffsetY = Lowest
    /\ snapToBounds(This).contentOffsetY = contentOffsetY
\* the bound nearer to the content offset
NearerBound ==
    IF Abs(contentOffsetY) <= Abs(contentOffsetY - Lowest) THEN 0 ELSE Lowest

\* C27: snapToBounds, from whatever content offset it is invoked at (above
\* the bounds, below them or in bounds), sets the content offset to the
\* nearer of the bounds 0 and lowest and sets isDecelerating_.
C27_SnapToNearerBound ==
    [][Snap => (contentOffsetY' = NearerBound /\ isDecelerating_')]_vars
\* C24: for every frame and content size the scroller is attached to,
\* lowest = frame size - content size is at most 0, so that [lowest, 0] is
\* not empty and the content offset 0 is not out of bounds.
C24_LowestNotPositive ==
    Attached => (Lowest <= 0 /\ ~positionIsOutOfBounds(This, 0))
\* the displacement -v^2 / (2a) of the release velocity v, with a of
\* magnitude ACCELERATION_SLIDING opposing v, in thousandths of a pixel
ReleaseDisplacement ==
    LET v == ReleaseVelocity
    IN  Quot(-(v * v) * 10, 2 * (-sign(v) * ACCELERATION_SLIDING))

\* C25: on a touch-end with the content offset in bounds and release
\* velocity v # 0 the stage becomes TO_BOUNDS exactly when offset + d is out
\* of bounds, d = -v^2 / (2a); otherwise the offset becomes offset + d and
\* the stage stays NONE; in both cases isDecelerating_ is set.  With v = 0
\* offset, stage and isDecelerating_ are unchanged.
C25_MomentumOrBounce ==
    [][(TouchEnd /\ ~isOutOfBounds(This)) =>
          IF ReleaseVelocity = 0
          THEN UNCHANGED <<contentOffsetY, queuedTransitionStage_,
                           isDecelerating_>>
          ELSE /\ isDecelerating_'
               /\ IF positionIsOutOfBounds(This,
                                           contentOffsetY + ReleaseDisplacement)
                  THEN queuedTransitionStage_' = TO_BOUNDS
                  ELSE /\ queuedTransitionStage_' = NONE
                       /\ contentOffsetY' =
                              contentOffsetY + ReleaseDisplacement]_vars

\* C25 witness: a release at 0.3 px/ms decelerates directly over 90 px
C25_Witness ==
    /\ finished = 0
    /\ queuedTransitionStage_ = NONE
    /\ isDecelerating_ /\ running
    /\ ~isOutOfBounds(This)
    /\ contentOffsetY = liveY + 90 * Milli

\* C26: on the touch-end of a drag whose content offset is out of bounds the
\* content is snapped to the bound that was exceeded (0 above, lowest
\* below) whatever the release velocity: the stage stays NONE and
\* isDecelerating_ is set.
C26_ReleaseOutOfBoundsSnaps ==
    [][(TouchEnd /\ isOutOfBounds(This)) =>
          /\ contentOffsetY' = IF contentOffsetY > 0 THEN 0 ELSE Lowest
          /\ queuedTransitionStage_' = NONE
          /\ isDecelerating_']_vars

\* C26 witness: a drag released below the lower bound is being snapped to it
C26_Witness ==
    /\ finished = 0
    /\ queuedTransitionStage_ = NONE
    /\ isDecelerating_ /\ running
    /\ liveY < Lowest
    /\ contentOffsetY = Lowest
\* C28: the sign of the release velocity is the sign of (current sample
\* position - previous sample position) for every pair of samples, also
\* when the timestamp difference is negative, clamped or not.
C28_VelocitySignIsDirection ==
    sign(ReleaseVelocity) = sign(currentPoint_ - previousPoint_)
\* C29: in every state, during a drag past an edge too, the content is at
\* most OUT_OF_BOUNDS_MAXIMUM pixels outside the frame:
\* lowest - 100 <= contentOffset <= 100.
C29_AtMostMaximumOutside ==
    Attached =>
        /\ Lowest - OUT_OF_BOUNDS_MAXIMUM * Milli <= contentOffsetY
        /\ contentOffsetY <= OUT_OF_BOUNDS_MAXIMUM * Milli

\* the content offset is one a touch-move renders for the current finger
\* position: the drag-start offset plus the displacement, damped or not
RenderedByDrag ==
    LET raw == currentPoint_ - startTouchY
    IN  \/ contentOffsetY = contentStartOffsetY + raw * Milli
        \/ contentOffsetY = contentStartOffsetY + rubberBand(raw)

\* C30: during a drag the rendered content offset depends only on the
\* drag-start offset and the finger position: a touch-move at the finger
\* position of the previous sample leaves the content offset unchanged.
C30_SamePositionSameOffset ==
    [][(TouchMove /\ RenderedByDrag /\ currentPoint_ # startTouchY
           /\ currentPoint_' = currentPoint_) =>
          contentOffsetY' = contentOffsetY]_vars
\* C31: whenever a release enters TO_BOUNDS the motion to the bound has a
\* displacement other than zero: the content offset at the release differs
\* from the bound, the transition issued changes the rendered offset and a
\* transitionend can follow.
C31_ToBoundsMoves ==
    [][(TouchEnd /\ queuedTransitionStage_' = TO_BOUNDS) =>
          /\ contentOffsetY' # contentOffsetY
          /\ running']_vars
\* the scroller s once the transition running in it, if any, has completed
\* and its transitionend has been handled
Settled(s) ==
    IF s.running
    THEN LET done == [s EXCEPT !.liveY = s.transformY, !.running = FALSE]
         IN  IF s.enabled_ = "true" THEN onTransitionEnd(done, TRUE) ELSE done
    ELSE s

\* C32: after setScrollTop returns the content offset stays at the clamped
\* value until the next touch event or API call, whatever transitionend
\* events arrive in between, also when the call is made during a bounce
\* sequence (TO_BOUNDS or BOUNCED_OUT).
C32_OffsetStaysAfterSetScrollTop ==
    [][SetScrollTop =>
          /\ Settled(This').contentOffsetY = contentOffsetY'
          /\ Settled(Settled(This')).contentOffsetY = contentOffsetY'
          /\ Settled(Settled(Settled(This'))).contentOffsetY =
                 contentOffsetY']_vars
\* C33: after any sequence of add, remove, reset, suspend, resume and
\* dispose calls on any number of scrollers, one never attached included,
\* the process-wide counter is the number of scrollers attached; so it
\* counts this scroller while it is attached, and the shared stylesheet,
\* removed when the counter reaches 0, is present.
C33_CounterCountsAttached == Attached => instancesCount_ >= 1
\* C34: in every state a stage other than NONE implies isDecelerating_; so
\* a touch-start, which resets the stage only when isDecelerating_ is set,
\* leaves no bounce stage in flight: during a drag the stage is NONE.
C34_StageImpliesDecelerating ==
    /\ queuedTransitionStage_ # NONE => isDecelerating_
    /\ isDragging_ => queuedTransitionStage_ = NONE

\* C34 witness: a touch-start has stopped a bounce half way between the
\* upper bound and the overshoot of 100 px, and the stage is NONE
C34_Witness ==
    /\ Scenario /\ isDragging_ /\ stopPropagationOnTouchEnd_
    /\ endMomentumVelocity_ > 0
    /\ contentOffsetY = (OUT_OF_BOUNDS_MAXIMUM * Milli) \div 2
    /\ queuedTransitionStage_ = NONE /\ ~isDecelerating_

===========================================================================
